---- MODULE Spec2Model ----
(***************************************************************************)
(* Policy Insights dashboard (src/app.py): the query log queries.csv, the  *)
(* AI helper ask_ai, save_query and the seven pages of the Streamlit       *)
(* script, run by concurrent sessions.                                     *)
(*                                                                         *)
(* Text is a sequence of characters, each character a one-character        *)
(* string; "U+26A0" and "U+FE0F" stand for the two code points of the      *)
(* warning sign of line 137 and "\n" for the line feed.                    *)
(*                                                                         *)
(* A cell of a DataFrame is a record [t, v]: t is the Python type of the   *)
(* value ("str", "nan" for the float NaN, "int", "float") and v its text.  *)
(* A timestamp is the reading of a clock that advances at every reading;   *)
(* its text always holds "-" and ":" and so is read back as the string it  *)
(* was written as: the model keeps the reading itself.                     *)
(*                                                                         *)
(* A step of a session is one access to the shared file (os.path.exists,   *)
(* read_csv, to_csv), taken as atomic, together with the code that follows *)
(* it up to the next access or to the blocking completion call.            *)
(***************************************************************************)
EXTENDS Integers, Sequences, FiniteSets, TLC

VARIABLES
    logExists,   \* os.path.exists(QUERY_FILE)
    logHeader,   \* the header line of queries.csv (<<>> while the file is absent)
    logRows,     \* the data lines of queries.csv: records of texts
    logVer,      \* how many times queries.csv has been written so far
    clock,       \* datetime.now()
    asks,        \* how many ask clicks have been made so far
    saved,       \* the calls of save_query that returned, in order: (context, q, a)
    policyDir,   \* the files of the folder POLICY_DIR
    userFiles,   \* the files a user may hand to the file uploader
    sess         \* per session: the position and the variables of its script run

vars == <<logExists, logHeader, logRows, logVer, clock, asks, saved, policyDir, userFiles, sess>>

\* ------------------------------------------------------------------ bounds

MaxAsks == 2
MaxRaceAsks == 3
MaxPromptAsks == 1
MaxOver == 2

\* ------------------------------------------------------------------- texts

Min(a, b) == IF a < b THEN a ELSE b

Digits == {"0", "1", "2", "3", "4", "5", "6", "7", "8", "9"}

S_General == <<"G", "e", "n", "e", "r", "a", "l">>

S_None == <<"N", "o", "n", "e">>

S_DotPdf == <<".", "p", "d", "f">>

S_PolicyDocument == <<"P", "o", "l", "i", "c", "y", " ", "D", "o", "c", "u", "m", "e", "n", "t", ":", "\n">>

S_Question == <<"\n", "\n", "Q", "u", "e", "s", "t", "i", "o", "n", ":", " ">>

S_CreateFaqs == <<"C", "r", "e", "a", "t", "e", " ", "5", " ", "F", "A", "Q", "s", " ", "f", "r", "o", "m", ":", "\n">>

S_ErrorMarker == <<"U+26A0", "U+FE0F", " ", "E", "r", "r", "o", "r", ":", " ">>

LogColumns == <<"timestamp", "context", "question", "answer">>

MaxContext == 5000

EndsWith(s, suffix) ==
    /\ Len(s) >= Len(suffix)
    /\ SubSeq(s, Len(s) - Len(suffix) + 1, Len(s)) = suffix

StartsWith(s, prefix) ==
    /\ Len(s) >= Len(prefix)
    /\ SubSeq(s, 1, Len(prefix)) = prefix

\* s[-n:] of Python, n > 0
SliceTail(s, n) == SubSeq(s, Len(s) - Min(n, Len(s)) + 1, Len(s))

\* s[:n] of Python, n >= 0
Slice(s, n) == SubSeq(s, 1, Min(n, Len(s)))

RECURSIVE Join(_, _)
\* sep.join(parts)
Join(sep, parts) ==
    IF Len(parts) = 0 THEN <<>>
    ELSE IF Len(parts) = 1 THEN parts[1]
    ELSE parts[1] \o sep \o Join(sep, Tail(parts))

\* --------------------------------------------------- pandas: read_csv, to_csv

\* the texts read_csv reads as NaN by default
NAValues ==
    { <<>>,
      <<"#", "N", "/", "A">>,
      <<"#", "N", "/", "A", " ", "N", "/", "A">>,
      <<"#", "N", "A">>,
      <<"-", "1", ".", "#", "I", "N", "D">>,
      <<"-", "1", ".", "#", "Q", "N", "A", "N">>,
      <<"-", "N", "a", "N">>,
      <<"-", "n", "a", "n">>,
      <<"1", ".", "#", "I", "N", "D">>,
      <<"1", ".", "#", "Q", "N", "A", "N">>,
      <<"<", "N", "A", ">">>,
      <<"N", "/", "A">>,
      <<"N", "A">>,
      <<"N", "U", "L", "L">>,
      <<"N", "a", "N">>,
      <<"N", "o", "n", "e">>,
      <<"n", "/", "a">>,
      <<"n", "a", "n">>,
      <<"n", "u", "l", "l">> }

IsDigits(s) == Len(s) > 0 /\ \A i \in 1..Len(s) : s[i] \in Digits

\* the place of the decimal point of a text digits "." digits, 0 for any other text
PointAt(s) ==
    LET ps == {i \in 1..Len(s) : s[i] = "."}
    IN  IF /\ Cardinality(ps) = 1
           /\ \E i \in ps : /\ IsDigits(SubSeq(s, 1, i - 1))
                             /\ IsDigits(SubSeq(s, i + 1, Len(s)))
        THEN CHOOSE i \in ps : TRUE
        ELSE 0

IsNumeric(s) == IsDigits(s) \/ PointAt(s) > 0

RECURSIVE StripLeadingZeros(_)
StripLeadingZeros(s) ==
    IF Len(s) > 1 /\ s[1] = "0" THEN StripLeadingZeros(Tail(s)) ELSE s

RECURSIVE StripTrailingZeros(_)
StripTrailingZeros(s) ==
    IF Len(s) > 1 /\ s[Len(s)] = "0"
    THEN StripTrailingZeros(SubSeq(s, 1, Len(s) - 1))
    ELSE s

\* str(int(s))
IntText(s) == StripLeadingZeros(s)

\* repr(float(s))
FloatText(s) ==
    IF IsDigits(s) THEN StripLeadingZeros(s) \o <<".", "0">>
    ELSE StripLeadingZeros(SubSeq(s, 1, PointAt(s) - 1)) \o <<".">>
         \o StripTrailingZeros(SubSeq(s, PointAt(s) + 1, Len(s)))

NaN == [t |-> "nan", v |-> <<>>]

Str(s) == [t |-> "str", v |-> s]

\* the dtype read_csv infers for a column of texts
ColumnType(texts) ==
    LET data == {i \in 1..Len(texts) : texts[i] \notin NAValues}
    IN  IF data = {} THEN "empty"
        ELSE IF \E i \in data : ~IsNumeric(texts[i]) THEN "object"
        ELSE IF Cardinality(data) = Len(texts) /\ \A i \in data : IsDigits(texts[i])
             THEN "int64"
        ELSE "float64"

\* the cell read_csv makes of a text in a column of that dtype
ParseCell(text, dtype) ==
    IF text \in NAValues THEN NaN
    ELSE IF dtype = "int64" THEN [t |-> "int", v |-> IntText(text)]
    ELSE IF dtype = "float64" THEN [t |-> "float", v |-> FloatText(text)]
    ELSE Str(text)

\* the text to_csv writes for a cell
FormatCell(cell) == cell.v

\* pd.read_csv(QUERY_FILE): the rows of the DataFrame
ReadCsv(rows) ==
    LET col(c) == [i \in 1..Len(rows) |-> rows[i][c]]
        ctxT == ColumnType(col("context"))
        qT   == ColumnType(col("question"))
        aT   == ColumnType(col("answer"))
    IN  [i \in 1..Len(rows) |->
            [timestamp |-> rows[i].timestamp,
             context   |-> ParseCell(rows[i].context, ctxT),
             question  |-> ParseCell(rows[i].question, qT),
             answer    |-> ParseCell(rows[i].answer, aT)]]

\* df.to_csv(QUERY_FILE, index=False): the data lines written
ToCsv(df) ==
    [i \in 1..Len(df) |->
        [timestamp |-> df[i].timestamp,
         context   |-> FormatCell(df[i].context),
         question  |-> FormatCell(df[i].question),
         answer    |-> FormatCell(df[i].answer)]]

\* df.loc[len(df)] = [datetime.now(), context, q, a]
AppendRow(df, now, context, q, a) ==
    Append(df, [timestamp |-> now, context |-> Str(context),
                question |-> Str(q), answer |-> Str(a)])

\* len(df)
Total(df) == Len(df)

\* df["context"].count(): the cells that are not NaN
CountNotNaN(df) == Cardinality({i \in 1..Len(df) : df[i].context # NaN})

\* df["context"].nunique(): NaN is not counted
Unique(df) ==
    Cardinality({df[i].context : i \in 1..Len(df)} \ {NaN})

\* whether sep.join(df["question"]) raises TypeError: an item that is not a str
JoinRaises(df) == \E i \in 1..Len(df) : df[i].question.t # "str"

Questions(df) == [i \in 1..Len(df) |-> df[i].question.v]

\* ---------------------------------------------------------------- documents

\* A file is [name, readable, pages]: PdfReader or extract_text raises on a file
\* that is not readable, and pages holds extract_text() of each page in order.

\* "\n".join([p.extract_text() for p in reader.pages if p.extract_text()])
ExtractText(file) ==
    Join(<<"\n">>, SelectSeq(file.pages, LAMBDA t : Len(t) > 0))

\* [f for f in os.listdir(POLICY_DIR) if f.endswith(".pdf")]
ListPolicies(dir) == {f.name : f \in {g \in dir : EndsWith(g.name, S_DotPdf)}}

FileNamed(fs, name) == CHOOSE f \in fs : f.name = name

\* f"Policy Document:\n{content[:5000]}\n\nQuestion: {q}"
PolicyPrompt(content, q) ==
    S_PolicyDocument \o Slice(content, MaxContext) \o S_Question \o q

\* "Create 5 FAQs from:\n" + "\n".join(df["question"])
FaqPrompt(df) == S_CreateFaqs \o Join(<<"\n">>, Questions(df))

\* ask_ai with an except branch that returns str(e) alone
AskAiResultBare(resp) == resp.text

\* what ask_ai returns for the outcome of client.chat.completions.create: the
\* content of the first choice, or the marker and str(e) when the call raised
AskAiResult(resp) ==
    IF resp.ok THEN resp.text ELSE S_ErrorMarker \o resp.text

\* ----------------------------------------------------------------- sessions

Sessions == {"s1", "s2"}

Pages == {"Home", "All Policies", "Upload or Choose & Ask", "Ask Policy AI",
          "My Analytics", "My FAQs", "Contact & Support"}

NoResp == [ok |-> TRUE, text |-> <<>>]

NoFile == [name |-> <<>>, readable |-> FALSE, pages |-> <<>>]

\* a session between two runs of the script, nothing shown yet
Idle ==
    [pc |-> "idle", page |-> "Home", click |-> FALSE, q |-> <<>>,
     hasUpload |-> FALSE, uploaded |-> <<>>, selected |-> S_None,
     called |-> FALSE, sent |-> <<>>, resp |-> NoResp, ans |-> <<>>,
     context |-> <<>>, df |-> <<>>, readVer |-> 0,
     wrote |-> 0, msg |-> "", exc |-> "", total |-> 0, unique |-> 0]

Set(s, r) == sess' = [sess EXCEPT ![s] = r]

\* A run of the script starts: the widgets hold the user's input, and lines 47-48
\* test whether queries.csv exists.
Startup(s, page, click, q, up, sel, limit) ==
    /\ sess[s].pc = "idle"
    /\ click => asks < limit
    /\ asks' = IF click THEN asks + 1 ELSE asks
    /\ Set(s, [Idle EXCEPT !.pc = IF logExists THEN "page" ELSE "create",
                           !.page = page, !.click = click, !.q = q,
                           !.hasUpload = up # NoFile, !.uploaded = up.name,
                           !.selected = sel])
    /\ UNCHANGED <<logExists, logHeader, logRows, logVer, clock, saved, policyDir, userFiles>>

\* line 49: pd.DataFrame(columns=[...]).to_csv(QUERY_FILE, index=False)
CreateLog(s) ==
    /\ sess[s].pc = "create"
    /\ logExists' = TRUE
    /\ logHeader' = LogColumns
    /\ logRows' = <<>>
    /\ logVer' = logVer + 1
    /\ Set(s, [sess[s] EXCEPT !.pc = "page"])
    /\ UNCHANGED <<clock, asks, saved, policyDir, userFiles>>

\* lines 152-166 and 258-272: Home, Contact & Support
RenderStatic(s) ==
    /\ sess[s].pc = "page"
    /\ sess[s].page \in {"Home", "Contact & Support"}
    /\ Set(s, [sess[s] EXCEPT !.pc = "done"])
    /\ UNCHANGED <<logExists, logHeader, logRows, logVer, clock, asks, saved, policyDir, userFiles>>

\* lines 169-185: All Policies
RenderAllPolicies(s) ==
    /\ sess[s].pc = "page"
    /\ sess[s].page = "All Policies"
    /\ Set(s, [sess[s] EXCEPT !.pc = "done",
                              !.msg = IF ListPolicies(policyDir) = {}
                                      THEN "No policies found." ELSE ""])
    /\ UNCHANGED <<logExists, logHeader, logRows, logVer, clock, asks, saved, policyDir, userFiles>>

\* lines 188-210: Upload or Choose & Ask, up to the call of ask_ai. content is
\* bound only when the read of line 201-202 did not raise.
RenderUpload(s) ==
    LET r       == sess[s]
        chosen  == r.hasUpload \/ r.selected # S_None
        file    == IF r.hasUpload THEN FileNamed(userFiles, r.uploaded)
                   ELSE FileNamed(policyDir, r.selected)
        bound   == file.readable
        content == ExtractText(file)
        shown   == IF bound THEN "" ELSE "Could not read PDF."
    IN  /\ r.pc = "page"
        /\ r.page = "Upload or Choose & Ask"
        /\ IF ~chosen THEN Set(s, [r EXCEPT !.pc = "done"])
           ELSE IF ~r.click THEN Set(s, [r EXCEPT !.pc = "done", !.msg = shown])
           ELSE IF ~bound
                THEN Set(s, [r EXCEPT !.pc = "done", !.msg = shown, !.exc = "NameError"])
           ELSE Set(s, [r EXCEPT !.pc = "asking", !.msg = shown, !.called = TRUE,
                                 !.sent = PolicyPrompt(content, r.q),
                                 !.context = IF ~r.hasUpload THEN r.selected
                                             ELSE r.uploaded])
        /\ UNCHANGED <<logExists, logHeader, logRows, logVer, clock, asks, saved, policyDir, userFiles>>

\* lines 216-221: Ask Policy AI, up to the call of ask_ai
RenderAskPolicyAI(s) ==
    LET r == sess[s]
    IN  /\ r.pc = "page"
        /\ r.page = "Ask Policy AI"
        /\ IF ~r.click THEN Set(s, [r EXCEPT !.pc = "done"])
           ELSE Set(s, [r EXCEPT !.pc = "asking", !.called = TRUE, !.sent = r.q,
                                 !.context = S_General])
        /\ UNCHANGED <<logExists, logHeader, logRows, logVer, clock, asks, saved, policyDir, userFiles>>

\* lines 227-244: My Analytics
RenderAnalytics(s) ==
    LET r  == sess[s]
        df == ReadCsv(logRows)
    IN  /\ r.pc = "page"
        /\ r.page = "My Analytics"
        /\ IF Len(df) = 0
           THEN Set(s, [r EXCEPT !.pc = "done", !.msg = "You haven't asked anything yet."])
           ELSE Set(s, [r EXCEPT !.pc = "done", !.total = Total(df), !.unique = Unique(df),
                                 !.exc = IF JoinRaises(df) THEN "TypeError" ELSE ""])
        /\ UNCHANGED <<logExists, logHeader, logRows, logVer, clock, asks, saved, policyDir, userFiles>>

\* lines 247-254: My FAQs, up to the call of ask_ai
RenderFaqs(s) ==
    LET r  == sess[s]
        df == ReadCsv(logRows)
    IN  /\ r.pc = "page"
        /\ r.page = "My FAQs"
        /\ IF Len(df) = 0
           THEN Set(s, [r EXCEPT !.pc = "done", !.msg = "No questions asked yet."])
           ELSE IF JoinRaises(df)
                THEN Set(s, [r EXCEPT !.pc = "done", !.exc = "TypeError"])
           ELSE Set(s, [r EXCEPT !.pc = "asking", !.called = TRUE, !.sent = FaqPrompt(df)])
        /\ UNCHANGED <<logExists, logHeader, logRows, logVer, clock, asks, saved, policyDir, userFiles>>

\* lines 125-137: the completion call returns or raises, and ask_ai returns. My
\* FAQs shows the result (line 255); the two ask pages show it (lines 211-212,
\* 222-223) and go on to save_query.
AskAi(s, resp) ==
    LET r == sess[s]
    IN  /\ r.pc = "asking"
        /\ Set(s, [r EXCEPT !.pc = IF r.page = "My FAQs" THEN "done" ELSE "save_read",
                            !.resp = resp, !.ans = AskAiResult(resp)])
        /\ UNCHANGED <<logExists, logHeader, logRows, logVer, clock, asks, saved, policyDir, userFiles>>

\* line 140: df = pd.read_csv(QUERY_FILE)
SaveQueryRead(s) ==
    LET r == sess[s]
    IN  /\ r.pc = "save_read"
        /\ Set(s, [r EXCEPT !.pc = "save_write", !.df = ReadCsv(logRows),
                            !.readVer = logVer])
        /\ UNCHANGED <<logExists, logHeader, logRows, logVer, clock, asks, saved, policyDir, userFiles>>

\* save_query adding its row to the file as it is at the write, not as it was read
SaveQueryWriteFresh(s) ==
    LET r == sess[s]
    IN  /\ r.pc = "save_write"
        /\ clock' = clock + 1
        /\ logExists' = TRUE
        /\ logHeader' = LogColumns
        /\ logRows' = ToCsv(AppendRow(ReadCsv(logRows), clock, r.context, r.q, r.ans))
        /\ logVer' = logVer + 1
        /\ saved' = Append(saved, [context |-> r.context, question |-> r.q, answer |-> r.ans])
        /\ Set(s, [r EXCEPT !.pc = "done", !.wrote = clock])
        /\ UNCHANGED <<asks, policyDir, userFiles>>

\* lines 141-142: the row is added to the DataFrame read and the file rewritten
SaveQueryWrite(s) ==
    LET r == sess[s]
    IN  /\ r.pc = "save_write"
        /\ clock' = clock + 1
        /\ logExists' = TRUE
        /\ logHeader' = LogColumns
        /\ logRows' = ToCsv(AppendRow(r.df, clock, r.context, r.q, r.ans))
        /\ logVer' = logVer + 1
        /\ saved' = Append(saved, [context |-> r.context, question |-> r.q, answer |-> r.ans])
        /\ Set(s, [r EXCEPT !.pc = "done", !.wrote = clock])
        /\ UNCHANGED <<asks, policyDir, userFiles>>

\* The run has ended and its page is shown; at the next interaction Streamlit
\* discards the page and runs the script again, with no variable of this run.
EndRun(s) ==
    /\ sess[s].pc = "done"
    /\ Set(s, Idle)
    /\ UNCHANGED <<logExists, logHeader, logRows, logVer, clock, asks, saved, policyDir, userFiles>>

\* ------------------------------------------------------------ specifications

T_hi == <<"h", "i">>

T_ok == <<"o", "k">>

T_down == <<"d", "o", "w", "n">>

F_a == [name |-> <<"p", "o", "l", "i", "c", "y", "_", "a">> \o S_DotPdf, readable |-> TRUE, pages |-> <<T_hi, <<>>, T_ok>>]

F_notes == [name |-> <<"n", ".", "t", "x", "t">>, readable |-> TRUE, pages |-> <<T_hi>>]

F_bad == [name |-> <<"x">> \o S_DotPdf, readable |-> FALSE, pages |-> <<>>]

Completed(text) == [ok |-> TRUE, text |-> text]

Raised(text) == [ok |-> FALSE, text |-> text]

T_NA == <<"N", "A">>

T_07 == <<"0", "7">>

T_ok_padded == <<" ", "o", "k", "\n">>

F_b == [name |-> <<"b">> \o S_DotPdf, readable |-> TRUE, pages |-> <<T_ok>>]

\* the widgets of a page: the ask pages have a question and a button, and the
\* upload page shows them only when a policy is chosen
Inputs(page, click, q, up, sel) ==
    /\ (sel = S_None) = (page # "Upload or Choose & Ask" \/ ListPolicies(policyDir) = {})
    /\ page # "Upload or Choose & Ask" => up = NoFile
    /\ page \notin {"Upload or Choose & Ask", "Ask Policy AI"} => ~click /\ q = <<>>
    /\ page = "Upload or Choose & Ask" /\ up = NoFile /\ sel = S_None => ~click /\ q = <<>>

InitWith(dir, files) ==
    /\ logExists = FALSE
    /\ logHeader = <<>>
    /\ logRows = <<>>
    /\ logVer = 0
    /\ clock = 1
    /\ asks = 0
    /\ saved = <<>>
    /\ policyDir = dir
    /\ userFiles = files
    /\ sess = [s \in Sessions |-> Idle]

\* a run of the script by session s starts, on one of pages and with a question of
\* qs; no more than limit ask clicks are made in all
Rerun(s, pages, qs, limit) ==
    /\ sess[s].pc = "idle"
    /\ \E page \in pages, click \in BOOLEAN, q \in qs \cup {<<>>},
          up \in userFiles \cup {NoFile}, sel \in ListPolicies(policyDir) \cup {S_None} :
           /\ Inputs(page, click, q, up, sel)
           /\ Startup(s, page, click, q, up, sel, limit)

\* the completion endpoint answers with one of resps
Answer(s, resps) == \E resp \in resps : AskAi(s, resp)

\* One session, every page; a folder with a policy and a file that is no PDF; an
\* unreadable and a readable upload.
Init == InitWith({F_a, F_notes}, {F_bad, F_b})

Next ==
    \/ Rerun("s1", Pages, {T_hi, T_NA, T_07}, MaxAsks)
    \/ CreateLog("s1")
    \/ RenderStatic("s1")
    \/ RenderAllPolicies("s1")
    \/ RenderUpload("s1")
    \/ RenderAskPolicyAI("s1")
    \/ RenderAnalytics("s1")
    \/ RenderFaqs("s1")
    \/ Answer("s1", {Completed(T_ok_padded), Raised(T_down)})
    \/ SaveQueryRead("s1")
    \/ SaveQueryWrite("s1")
    \/ EndRun("s1")

Spec == Init /\ [][Next]_vars

\* Two sessions, their steps interleaved, on Home, Ask Policy AI and the two
\* policy pages; the folder holds no policy.
InitRace == InitWith({F_notes}, {})

NextRace ==
    \E s \in Sessions :
        \/ Rerun(s, {"Home", "All Policies", "Upload or Choose & Ask", "Ask Policy AI"},
                 {T_hi}, MaxRaceAsks)
        \/ CreateLog(s)
        \/ RenderStatic(s)
        \/ RenderAllPolicies(s)
        \/ RenderUpload(s)
        \/ RenderAskPolicyAI(s)
        \/ Answer(s, {Completed(T_ok)})
        \/ SaveQueryRead(s)
        \/ SaveQueryWrite(s)
        \/ EndRun(s)

SpecRace == InitRace /\ [][NextRace]_vars

\* One session on Upload or Choose & Ask, with documents around MaxContext
\* characters: of one page and of two, in the folder and uploaded.
Text(n) == [i \in 1..n |-> IF i % 3 = 0 THEN "c" ELSE IF i % 3 = 1 THEN "a" ELSE "b"]

F_exact == [name |-> <<"e">> \o S_DotPdf, readable |-> TRUE, pages |-> <<Text(MaxContext)>>]

F_over(k) ==
    [name |-> <<"o", ToString(k)>> \o S_DotPdf, readable |-> TRUE,
     pages |-> <<Text(MaxContext + k)>>]

F_two == [name |-> <<"t">> \o S_DotPdf, readable |-> TRUE,
          pages |-> <<Text(MaxContext - 2), <<>>, Text(MaxOver + 1)>>]

F_blank == [name |-> <<"z">> \o S_DotPdf, readable |-> TRUE, pages |-> <<<<>>, <<>>>>]

InitPrompt ==
    InitWith({F_a, F_exact, F_two}, {F_blank, F_bad} \cup {F_over(k) : k \in 1..MaxOver})

NextPrompt ==
    \/ Rerun("s1", {"Upload or Choose & Ask"}, {T_hi}, MaxPromptAsks)
    \/ CreateLog("s1")
    \/ RenderUpload("s1")
    \/ Answer("s1", {Completed(T_ok)})
    \/ SaveQueryRead("s1")
    \/ SaveQueryWrite("s1")
    \/ EndRun("s1")

SpecPrompt == InitPrompt /\ [][NextPrompt]_vars

\* ------------------------------------------------------------------- claims

AskPages == {"Upload or Choose & Ask", "Ask Policy AI"}

Last(seq) == seq[Len(seq)]

Max(a, b) == IF a > b THEN a ELSE b

Whitespace == {" ", "\n", "\t", "\r"}

RECURSIVE LStrip(_)
LStrip(s) == IF Len(s) > 0 /\ s[1] \in Whitespace THEN LStrip(Tail(s)) ELSE s

RECURSIVE RStrip(_)
RStrip(s) ==
    IF Len(s) > 0 /\ s[Len(s)] \in Whitespace THEN RStrip(SubSeq(s, 1, Len(s) - 1)) ELSE s

Strip(s) == RStrip(LStrip(s))

Stamps == {logRows[i].timestamp : i \in 1..Len(logRows)}

SavedContexts == {saved[i].context : i \in 1..Len(saved)}

\* ask_ai has returned to the run of session s
Returned(s) == sess[s].called /\ sess[s].pc \in {"save_read", "save_write", "done"}

\* the file the upload page of session s reads
ChosenFile(s) ==
    IF sess[s].hasUpload THEN FileNamed(userFiles, sess[s].uploaded)
    ELSE FileNamed(policyDir, sess[s].selected)

\* sessions s and t both read the log before either rewrote it, and both have
\* rewritten it since, nobody else
BothReadThenWrote(s, t) ==
    /\ s # t
    /\ sess[s].pc = "done" /\ sess[s].wrote # 0
    /\ sess[t].pc = "done" /\ sess[t].wrote # 0
    /\ sess[s].readVer = sess[t].readVer
    /\ logVer = sess[s].readVer + 2

\* C1: when two sessions both read the log in save_query before either rewrites
\* it, the file after both writes holds one row more than was read, the row of
\* the later writer and not the row of the earlier one, and neither session has
\* seen an exception although both calls returned.
C1_LastWriterWins ==
    \A s, t \in Sessions :
        BothReadThenWrote(s, t) =>
            /\ Len(logRows) = Len(sess[s].df) + 1
            /\ Len(sess[s].df) = Len(sess[t].df)
            /\ Last(logRows).timestamp = Max(sess[s].wrote, sess[t].wrote)
            /\ Min(sess[s].wrote, sess[t].wrote) \notin Stamps
            /\ sess[s].exc = "" /\ sess[t].exc = ""
            /\ Len(saved) >= 2

C1_Witness == \E s, t \in Sessions : BothReadThenWrote(s, t)

\* C2: from one state to the next the log file never goes back to absent and
\* the number of its rows never decreases.
C2_RowsNeverDecrease ==
    [][(logExists => logExists') /\ Len(logRows') >= Len(logRows)]_vars

\* C3: when save_query(context, q, a) with a non-empty q returns, a load of the
\* log gives the rows loaded before the call, in order, and then one row with
\* exactly that context, question and answer.
C3_AppendThenLoad ==
    [][\A s \in Sessions :
          (sess[s].pc = "save_write" /\ sess'[s].pc = "done" /\ sess[s].q # <<>>) =>
              LET before == ReadCsv(logRows)
                  after  == ReadCsv(logRows')
              IN  /\ Len(after) = Len(before) + 1
                  /\ Last(after).context = Str(sess[s].context)
                  /\ Last(after).question = Str(sess[s].q)
                  /\ Last(after).answer = Str(sess[s].ans)
                  /\ SubSeq(after, 1, Len(before)) = before]_vars

\* C4: a click of the ask button with an empty question, on either ask page,
\* calls ask_ai never and adds no row to the log.
C4_BlankRejected ==
    \A s \in Sessions :
        (sess[s].page \in AskPages /\ sess[s].click /\ sess[s].q = <<>>) =>
            ~sess[s].called /\ sess[s].wrote = 0

\* C5: a run of the upload page whose PDF could not be read, with the button
\* not clicked or clicked with a question, ends with the message "Could not read
\* PDF." shown, no unhandled exception, and no row added.
C5_UnreadableNoCrash ==
    \A s \in Sessions :
        ( /\ sess[s].pc = "done"
          /\ sess[s].page = "Upload or Choose & Ask"
          /\ sess[s].hasUpload \/ sess[s].selected # S_None
          /\ ~ChosenFile(s).readable
          /\ sess[s].click => sess[s].q # <<>> ) =>
            /\ sess[s].msg = "Could not read PDF."
            /\ sess[s].exc = ""
            /\ sess[s].wrote = 0

\* C6: when the completion call raises, ask_ai returns the warning marker
\* followed by the text of the exception and raises nothing; on the two ask
\* pages the run then ends with that string as the answer of the last row of the
\* log.
C6_ErrorIsAnswer ==
    \A s \in Sessions :
        (Returned(s) /\ ~sess[s].resp.ok) =>
            /\ StartsWith(sess[s].ans, S_ErrorMarker)
            /\ sess[s].ans = S_ErrorMarker \o sess[s].resp.text
            /\ sess[s].exc = ""
            /\ (sess[s].pc = "done" /\ sess[s].page \in AskPages) =>
                  /\ sess[s].wrote # 0
                  /\ Last(logRows).timestamp = sess[s].wrote
                  /\ Last(logRows).answer = sess[s].ans
                  /\ Last(ReadCsv(logRows)).answer = Str(sess[s].ans)

C6_Witness ==
    \E s \in Sessions :
        /\ sess[s].pc = "done" /\ sess[s].page \in AskPages
        /\ Returned(s) /\ ~sess[s].resp.ok /\ sess[s].wrote # 0

\* C7: the log file is absent at first and is created with the header timestamp,
\* context, question, answer and no row; with one session, after k calls of
\* save_query a load gives k rows whose contexts are the contexts saved, in
\* order, len(df) is k and nunique of the contexts is the number of distinct
\* contexts saved, and My Analytics shows these two numbers.
C7_SequentialAppends ==
    LET df == ReadCsv(logRows)
    IN  /\ logExists => logHeader = LogColumns
        /\ ~logExists => saved = <<>> /\ logRows = <<>>
        /\ Len(df) = Len(saved)
        /\ \A i \in 1..Len(df) : df[i].context = Str(saved[i].context)
        /\ Total(df) = Len(saved)
        /\ Unique(df) = Cardinality(SavedContexts)
        /\ \A s \in Sessions :
              (sess[s].pc = "done" /\ sess[s].page = "My Analytics" /\ saved # <<>>) =>
                  /\ sess[s].total = Len(saved)
                  /\ sess[s].unique = Cardinality(SavedContexts)

C7_Witness ==
    \E s \in Sessions :
        /\ sess[s].pc = "done" /\ sess[s].page = "My Analytics"
        /\ saved # <<>> /\ saved[1].context = F_a.name
        /\ sess[s].total = 2 /\ sess[s].unique = 1

\* C8: the prompt the upload page passes to ask_ai is "Policy Document:\n", then
\* the first MaxContext characters of the extracted text, unchanged and in order
\* (the whole text when it has at most MaxContext characters), then
\* "\n\nQuestion: " and the question.
C8_PrefixCut ==
    \A s \in Sessions :
        (sess[s].pc = "asking" /\ sess[s].page = "Upload or Choose & Ask") =>
            LET content == ExtractText(ChosenFile(s))
                head    == Len(S_PolicyDocument)
                n       == Len(sess[s].sent) - head - Len(S_Question) - Len(sess[s].q)
            IN  /\ n = IF Len(content) > MaxContext THEN MaxContext ELSE Len(content)
                /\ StartsWith(sess[s].sent, S_PolicyDocument)
                /\ \A i \in 1..n : sess[s].sent[head + i] = content[i]
                /\ EndsWith(sess[s].sent, S_Question \o sess[s].q)

C8_Witness ==
    \E s \in Sessions :
        /\ sess[s].pc = "asking" /\ sess[s].page = "Upload or Choose & Ask"
        /\ Len(ExtractText(ChosenFile(s))) > MaxContext
        /\ Len(sess[s].sent) = Len(S_PolicyDocument) + MaxContext + Len(S_Question) + Len(sess[s].q)

\* C9: what ask_ai returns for a completion is the content of the completion
\* with its leading and trailing whitespace removed.
C9_Trimmed ==
    \A s \in Sessions :
        (Returned(s) /\ sess[s].resp.ok) => sess[s].ans = Strip(sess[s].resp.text)

\* C10: the rows of the log change only when a run of an ask page with the
\* button clicked writes, by one row added; and every run of an ask page with the
\* button clicked has called ask_ai and added its row when it ends.
C10_OnlyAskClicksAppend ==
    [][\A s \in Sessions :
          /\ logRows' # logRows =>
                \E t \in Sessions :
                    /\ sess[t].page \in AskPages /\ sess[t].click
                    /\ sess[t].pc = "save_write" /\ sess'[t].pc = "done"
                    /\ Len(logRows') = Len(logRows) + 1
          /\ ( /\ sess[s].pc # "done" /\ sess'[s].pc = "done"
               /\ sess'[s].page \in AskPages /\ sess'[s].click ) =>
                sess'[s].called /\ sess'[s].wrote # 0]_vars

====
